---- MODULE Spec2Model ----
(***************************************************************************)
(* Feather: the batch image-normalisation run of src/Feather.py.           *)
(*                                                                         *)
(* One ImageProcessor.run is modelled: the run thread (tracker creation,   *)
(* batch partition, submission to the ThreadPoolExecutor, the as_completed *)
(* loop, the final progress update and the finished signal) and the pool's *)
(* worker threads, each executing process_image_batch on one batch, one    *)
(* file at a time (process_single_image, the counter increment, the        *)
(* tracker snapshot and the progress emission are separate steps, so that  *)
(* every interleaving the threads allow is explored).                      *)
(***************************************************************************)
EXTENDS Integers, Sequences, FiniteSets, TLC

(* ---------------------------- bounds ---------------------------------- *)
MaxFiles == 3
MaxBatchSize == 2
MaxWorkers == 2

(* Extensions the inputs are drawn from: one supported, one not.           *)
Exts == {"jpg", "bmp"}

(* Feather.py:83, the extensions process_single_image accepts.             *)
SupportedExts == {"jpeg", "jpg", "png", "tiff", "tif"}

VARIABLES
    file_paths,    \* self.file_paths: sequence of [name, ext]
    batch_size,    \* self.batch_size
    max_workers,   \* self.max_workers
    pc,            \* position of the run thread in ImageProcessor.run
    tracker,       \* the ProgressTracker: [processed, errors, total]
    file_batches,  \* run's file_batches
    submitted,     \* number of batches handed to executor.submit so far
    task,          \* per batch: the state of its process_image_batch call
    collected,     \* failed batches the as_completed loop has handled
    credit,        \* [batch, left]: the "for _ in batch" loop of line 256
    final,         \* final_progress computed in the finally block
    progress_total,\* the value last emitted on the progress signal (the
                   \* slot connected to it, progress_total.setValue, keeps it)
    emissions,     \* number of emissions of the progress signal
    finished,      \* number of emissions of the finished signal
    counted,       \* per file name: increments applied on its behalf
    image,         \* one call of process_single_image, step by step
    lock,          \* ProgressTracker._lock: the thread holding it, or 0
    thread         \* per thread calling a ProgressTracker method: its
                   \* method, position in it, local value and result

vars == <<file_paths, batch_size, max_workers, pc, tracker, file_batches,
          submitted, task, collected, credit, final, progress_total,
          emissions, finished, counted, image, lock, thread>>

Min(a, b) == IF a <= b THEN a ELSE b

(* ------------------------- ProgressTracker ---------------------------- *)
ProgressTracker(total_files) ==
    [processed |-> 0, errors |-> 0, total |-> total_files]

increment_processed(t) == [t EXCEPT !.processed = @ + 1]

increment_errors(t) == [t EXCEPT !.errors = @ + 1]

get_progress(t) == <<t.processed, t.errors, t.total>>

(* int(((processed + errors) / total) * 100).  The float evaluation agrees *)
(* with the integer floor for every total up to 12 and every count up to   *)
(* twice the total, which covers the bounds used here.                     *)
progress_value(snap) == ((snap[1] + snap[2]) * 100) \div snap[3]

(* ----------------------------- batches -------------------------------- *)
(* NumBatches is len(range(0, len(file_paths), batch_size)).               *)
(* [file_paths[i:i+batch_size] for i in range(0, len(file_paths), batch_size)] *)
(* A variant of NumBatches: only the full slices are taken.                *)
NumFullBatches(paths, bs) == Len(paths) \div bs

NumBatches(paths, bs) == (Len(paths) + bs - 1) \div bs

(* A variant of Batches: every slice but the first starts one file early.   *)
BatchesOverlapping(paths, bs) ==
    [k \in 1..NumBatches(paths, bs) |->
        SubSeq(paths, IF k = 1 THEN 1 ELSE (k - 1) * bs,
               Min(k * bs, Len(paths)))]

Batches(paths, bs) ==
    [k \in 1..NumBatches(paths, bs) |->
        SubSeq(paths, (k - 1) * bs + 1, Min(k * bs, Len(paths)))]

Names == 1..MaxFiles

(* progress_value is the local of Feather.py:70; it is kept only from the  *)
(* snapshot to the emission that reads it.                                 *)
NewTask == [pc |-> "unsubmitted", i |-> 0, progress_value |-> 0,
            results |-> <<>>]

NoCredit == [batch |-> 0, left |-> 0]

(* No call of process_single_image is being followed step by step.         *)
NoImage == [pc |-> "none"]

(* ------------------------------ Init ---------------------------------- *)
Init ==
    /\ \E n \in 0..MaxFiles :
         \E e \in [1..n -> Exts] :
            file_paths = [i \in 1..n |-> [name |-> i, ext |-> e[i]]]
    /\ batch_size \in 1..MaxBatchSize
    /\ max_workers \in 1..MaxWorkers
    /\ pc = "start"
    /\ tracker = ProgressTracker(0)
    /\ file_batches = <<>>
    /\ submitted = 0
    /\ task = <<>>
    /\ collected = {}
    /\ credit = NoCredit
    /\ final = 0
    /\ progress_total = 0
    /\ emissions = 0
    /\ finished = 0
    /\ counted = [f \in Names |-> [processed |-> 0, errors |-> 0]]
    /\ image = NoImage
    /\ lock = 0
    /\ thread = <<>>


(* ------------------------ helpers on the state ------------------------ *)
BatchIds == DOMAIN file_batches

RunningPcs == {"transform", "snapshot", "emit"}

TerminalPcs == {"returned", "raised"}

(* A variant of Running: the pool does not see its busy threads.           *)
NoneRunning == {}

Running == {b \in DOMAIN task : task[b].pc \in RunningPcs}

(* The file the worker of batch b is at: file_batch[i] of its for loop.    *)
CurrentFile(b) == file_batches[b][task[b].i]

(* A variant of startswith_error that also takes 'skipped: ...' for an     *)
(* error.                                                                  *)
startswith_error_or_skipped(result) == result \in {"error", "skipped"}

(* result.startswith('error:'), Feather.py:57.                             *)
startswith_error(result) == result = "error"

(* A variant of ShutdownComplete: shutdown(wait=False).                    *)
ShutdownNoWait == TRUE

(* ThreadPoolExecutor.__exit__ is shutdown(wait=True): it returns when     *)
(* every submitted work item has run to its end.                           *)
ShutdownComplete ==
    \A b \in DOMAIN task : task[b].pc \in TerminalPcs \cup {"unsubmitted"}

(* self.progress.emit(value), Feather.py:71 and 266: the connected slot    *)
(* (Feather.py:421) sets the progress bar to the value.                    *)
progress_emit(value) ==
    /\ progress_total' = value
    /\ emissions' = emissions + 1

(* ------------------------- ImageProcessor.run ------------------------- *)
(* Feather.py:212-215: total_files == 0.                                   *)
run_empty ==
    /\ pc = "start"
    /\ Len(file_paths) = 0
    /\ finished' = finished + 1
    /\ pc' = "done"
    /\ UNCHANGED <<file_paths, batch_size, max_workers, tracker, file_batches,
                   submitted, task, collected, credit, final, progress_total, emissions,
                   counted, image,
                   lock, thread>>

(* Feather.py:217-226: tracker and batches.                                *)
run_begin ==
    /\ pc = "start"
    /\ Len(file_paths) > 0
    /\ tracker' = ProgressTracker(Len(file_paths))
    /\ file_batches' = Batches(file_paths, batch_size)
    /\ task' = [b \in 1..NumBatches(file_paths, batch_size) |-> NewTask]
    /\ pc' = "submit"
    /\ UNCHANGED <<file_paths, batch_size, max_workers, submitted, collected,
                   credit, final, progress_total, emissions, finished, counted,
                   image,
                   lock, thread>>

(* Feather.py:232-241: one executor.submit of the dict comprehension.      *)
executor_submit ==
    /\ pc = "submit"
    /\ submitted < Len(file_batches)
    /\ submitted' = submitted + 1
    /\ task' = [task EXCEPT ![submitted + 1].pc = "queued"]
    /\ pc' = IF submitted + 1 = Len(file_batches) THEN "as_completed" ELSE "submit"
    /\ UNCHANGED <<file_paths, batch_size, max_workers, tracker, file_batches,
                   collected, credit, final, progress_total, emissions, finished, counted, image,
                   lock, thread>>

(* A variant of executor_raises: the exception leaves run() without        *)
(* passing through the finally block.                                      *)
executor_raises_uncaught ==
    /\ pc = "submit"
    /\ submitted < Len(file_batches)
    /\ pc' = "done"
    /\ UNCHANGED <<file_paths, batch_size, max_workers, tracker, file_batches,
                   submitted, task, collected, credit, final, progress_total,
                   emissions, finished, counted, image, lock, thread>>

(* The pool raises inside the with block (executor.submit cannot start a   *)
(* thread): control leaves the with block, Feather.py:259-260.             *)
executor_raises ==
    /\ pc = "submit"
    /\ submitted < Len(file_batches)
    /\ pc' = "shutdown"
    /\ UNCHANGED <<file_paths, batch_size, max_workers, tracker, file_batches,
                   submitted, task, collected, credit, final, progress_total, emissions, finished, counted, image,
                   lock, thread>>

(* Feather.py:253-256: future.result() re-raises the batch's exception.    *)
future_exception(b) ==
    /\ pc = "as_completed"
    /\ b \notin collected
    /\ task[b].pc = "raised"
    /\ credit' = [batch |-> b, left |-> Len(file_batches[b])]
    /\ pc' = "credit"
    /\ UNCHANGED <<file_paths, batch_size, max_workers, tracker, file_batches,
                   submitted, task, collected, final, progress_total, emissions, finished,
                   counted, image,
                   lock, thread>>

(* Feather.py:256-257: one iteration of "for _ in batch:                   *)
(* progress_tracker.increment_errors()".                                   *)
credit_error ==
    /\ pc = "credit"
    /\ credit.left > 0
    /\ LET b == credit.batch
           k == Len(file_batches[b]) - credit.left + 1
           f == file_batches[b][k].name
       IN /\ tracker' = increment_errors(tracker)
          /\ counted' = [counted EXCEPT ![f].errors = @ + 1]
          /\ IF credit.left = 1
                THEN /\ credit' = NoCredit
                     /\ collected' = collected \cup {b}
                     /\ pc' = "as_completed"
                ELSE /\ credit' = [credit EXCEPT !.left = @ - 1]
                     /\ UNCHANGED <<collected, pc>>
    /\ UNCHANGED <<file_paths, batch_size, max_workers, file_batches,
                   submitted, task, final, progress_total, emissions, finished, image,
                   lock, thread>>

(* Feather.py:244-251: the as_completed loop ends when every future has   *)
(* been yielded.  A future whose batch returned only has its results       *)
(* logged, which changes no state, so it needs no step of its own.         *)
as_completed_done ==
    /\ pc = "as_completed"
    /\ \A b \in BatchIds : task[b].pc = "returned" \/ b \in collected
    /\ pc' = "shutdown"
    /\ UNCHANGED <<file_paths, batch_size, max_workers, tracker, file_batches,
                   submitted, task, collected, credit, final, progress_total, emissions, finished, counted, image,
                   lock, thread>>

(* Leaving the with block, Feather.py:230: waits for the workers.          *)
executor_exit ==
    /\ pc = "shutdown"
    /\ ShutdownComplete
    /\ pc' = "finally"
    /\ UNCHANGED <<file_paths, batch_size, max_workers, tracker, file_batches,
                   submitted, task, collected, credit, final, progress_total, emissions, finished, counted, image,
                   lock, thread>>

(* Feather.py:264-265.                                                     *)
final_progress ==
    /\ pc = "finally"
    /\ final' = IF tracker.total > 0
                   THEN progress_value(get_progress(tracker))
                   ELSE 100
    /\ pc' = "emit_progress"
    /\ UNCHANGED <<file_paths, batch_size, max_workers, tracker, file_batches,
                   submitted, task, collected, credit, progress_total, emissions, finished,
                   counted, image,
                   lock, thread>>

(* Feather.py:266.                                                         *)
emit_final_progress ==
    /\ pc = "emit_progress"
    /\ progress_emit(final)
    /\ pc' = "emit_finished"
    /\ UNCHANGED <<file_paths, batch_size, max_workers, tracker, file_batches,
                   submitted, task, collected, credit, final, finished,
                   counted, image,
                   lock, thread>>

(* Feather.py:272.                                                         *)
emit_finished ==
    /\ pc = "emit_finished"
    /\ finished' = finished + 1
    /\ pc' = "done"
    /\ UNCHANGED <<file_paths, batch_size, max_workers, tracker, file_batches,
                   submitted, task, collected, credit, final, progress_total, emissions,
                   counted, image,
                   lock, thread>>


(* ------------------------- process_image_batch ------------------------ *)
(* A pool thread takes the oldest queued work item; the pool has at most   *)
(* max_workers threads (Feather.py:230).                                   *)
batch_start(b) ==
    /\ task[b].pc = "queued"
    /\ Cardinality(Running) < max_workers
    /\ \A c \in DOMAIN task : c < b => task[c].pc # "queued"
    /\ task' = [task EXCEPT ![b].pc = "transform", ![b].i = 1]
    /\ UNCHANGED <<file_paths, batch_size, max_workers, pc, tracker,
                   file_batches, submitted, collected, credit, final, progress_total, emissions,
                   finished, counted, image,
                   lock, thread>>

(* A variant of IncrementFor: the branches of Feather.py:57-60 swapped.    *)
IncrementForSwapped(result) ==
    IF startswith_error(result) THEN "processed" ELSE "errors"

(* Feather.py:57-60: which counter a returned result increments.           *)
IncrementFor(result) ==
    IF startswith_error(result) THEN "errors" ELSE "processed"

(* The results process_single_image can return for a path with extension  *)
(* ext: Feather.py:83-84, 183, 185-187.                                    *)
Returns(ext) ==
    IF ext \in SupportedExts THEN {"success", "error"} ELSE {"skipped"}

(* Feather.py:54-66: one iteration of the try block of the batch loop. The *)
(* call of process_single_image on the current file either returns result  *)
(* r or raises (r = "raised", handled at Feather.py:62-66); the result is  *)
(* recorded and one counter is incremented.  The call touches nothing      *)
(* another thread reads, so the iteration is one step up to and including  *)
(* the increment.                                                          *)
Iteration(b, r) ==
    LET f == CurrentFile(b).name
        logged == IF r = "raised" THEN "error" ELSE r
        which == IF r = "raised" THEN "errors" ELSE IncrementFor(r)
    IN /\ task[b].pc = "transform"
       /\ task' = [task EXCEPT ![b].pc = "snapshot",
                                ![b].results = Append(@, <<f, logged>>)]
       /\ IF which = "errors"
             THEN /\ tracker' = increment_errors(tracker)
                  /\ counted' = [counted EXCEPT ![f].errors = @ + 1]
             ELSE /\ tracker' = increment_processed(tracker)
                  /\ counted' = [counted EXCEPT ![f].processed = @ + 1]
       /\ UNCHANGED <<file_paths, batch_size, max_workers, pc, file_batches,
                      submitted, collected, credit, final, progress_total,
                      emissions, finished, image,
                   lock, thread>>

(* Feather.py:54: process_single_image returns.                            *)
batch_file_returns(b) ==
    /\ task[b].pc = "transform"
    /\ \E r \in Returns(CurrentFile(b).ext) : Iteration(b, r)

(* An exception leaves process_single_image (raised outside its try,       *)
(* Feather.py:80) and reaches the handler of Feather.py:62.                *)
batch_file_raises(b) ==
    /\ task[b].pc = "transform"
    /\ Iteration(b, "raised")

(* Feather.py:69-70: the snapshot, and the percentage computed from it.    *)
batch_get_progress(b) ==
    /\ task[b].pc = "snapshot"
    /\ task' = [task EXCEPT ![b].pc = "emit",
                            ![b].progress_value =
                                progress_value(get_progress(tracker))]
    /\ UNCHANGED <<file_paths, batch_size, max_workers, pc, tracker,
                   file_batches, submitted, collected, credit, final, progress_total, emissions,
                   finished, counted, image,
                   lock, thread>>

(* A variant of batch_emit: the emission is made once per batch, after its *)
(* last file.                                                              *)
batch_emit_once(b) ==
    /\ task[b].pc = "emit"
    /\ IF task[b].i < Len(file_batches[b])
          THEN UNCHANGED <<progress_total, emissions>>
          ELSE progress_emit(task[b].progress_value)
    /\ task' = IF task[b].i < Len(file_batches[b])
                  THEN [task EXCEPT ![b].pc = "transform", ![b].i = @ + 1,
                                    ![b].progress_value = 0]
                  ELSE [task EXCEPT ![b].pc = "returned",
                                    ![b].progress_value = 0]
    /\ UNCHANGED <<file_paths, batch_size, max_workers, pc, tracker,
                   file_batches, submitted, collected, credit, final,
                   finished, counted, image, lock, thread>>

(* Feather.py:71-76: progress_callback.emit(progress_value), gc.collect(), *)
(* then the next file of the batch or the return.                          *)
batch_emit(b) ==
    /\ task[b].pc = "emit"
    /\ progress_emit(task[b].progress_value)
    /\ task' = IF task[b].i < Len(file_batches[b])
                  THEN [task EXCEPT ![b].pc = "transform", ![b].i = @ + 1,
                                    ![b].progress_value = 0]
                  ELSE [task EXCEPT ![b].pc = "returned",
                                    ![b].progress_value = 0]
    /\ UNCHANGED <<file_paths, batch_size, max_workers, pc, tracker,
                   file_batches, submitted, collected, credit, final, finished, counted, image,
                   lock, thread>>

(* Where an exception leaves process_image_batch: the statements outside   *)
(* its try block (Feather.py:66-71), all after the file is counted.        *)
RaisePoints == {"snapshot", "emit"}

batch_raises(b) ==
    /\ task[b].pc \in RaisePoints
    /\ task' = [task EXCEPT ![b].pc = "raised", ![b].progress_value = 0]
    /\ UNCHANGED <<file_paths, batch_size, max_workers, pc, tracker,
                   file_batches, submitted, collected, credit, final, progress_total, emissions,
                   finished, counted, image,
                   lock, thread>>

(* ------------------------------- Next --------------------------------- *)
Next ==
    \/ run_empty
    \/ run_begin
    \/ executor_submit
    \/ executor_raises
    \/ \E b \in DOMAIN task : future_exception(b)
    \/ credit_error
    \/ as_completed_done
    \/ executor_exit
    \/ final_progress
    \/ emit_final_progress
    \/ emit_finished
    \/ \E b \in DOMAIN task : batch_start(b)
    \/ \E b \in DOMAIN task : batch_file_returns(b)
    \/ \E b \in DOMAIN task : batch_file_raises(b)
    \/ \E b \in DOMAIN task : batch_get_progress(b)
    \/ \E b \in DOMAIN task : batch_emit(b)
    \/ \E b \in DOMAIN task : batch_raises(b)

Spec == Init /\ [][Next]_vars

(* The run thread and the pool's workers keep being scheduled, and every   *)
(* step of theirs, a call of process_single_image included, terminates:    *)
(* the run does not stop while one of its threads can take a step.         *)
FairSpec == Spec /\ WF_vars(Next)


(* ------------------------ process_single_image ------------------------ *)
(* One call followed statement by statement, with the file it rewrites.    *)
(* image.pc names the statement the call is at; image.content is the file  *)
(* on disk at file_path.                                                   *)
MaxDim == 3

Dims == 1..MaxDim

(* A variant of Canvas: the target is used as given.                       *)
CanvasAsGiven(size, target) == target

(* Feather.py:98-105: the canvas follows the orientation of the source.    *)
Canvas(size, target) ==
    LET original_is_landscape == size[1] > size[2]
    IN IF original_is_landscape /\ target[1] < target[2]
          THEN <<target[2], target[1]>>
          ELSE IF ~original_is_landscape /\ target[1] > target[2]
                  THEN <<target[2], target[1]>>
                  ELSE target

(* A variant of Scaled: the larger of the two scales is used.               *)
ScaledToFill(size, canvas) ==
    IF canvas[1] * size[2] >= canvas[2] * size[1]
       THEN <<(size[1] * canvas[1]) \div size[1],
              (size[2] * canvas[1]) \div size[1]>>
       ELSE <<(size[1] * canvas[2]) \div size[2],
              (size[2] * canvas[2]) \div size[2]>>

(* Feather.py:108-114: scale = min(tw/ow, th/oh), new = int(original *     *)
(* scale).  Over Dims the float evaluation agrees with the exact quotient  *)
(* (compared exhaustively for dimensions up to 8).                         *)
Scaled(size, canvas) ==
    IF canvas[1] * size[2] <= canvas[2] * size[1]
       THEN <<(size[1] * canvas[1]) \div size[1],
              (size[2] * canvas[1]) \div size[1]>>
       ELSE <<(size[1] * canvas[2]) \div size[2],
              (size[2] * canvas[2]) \div size[2]>>

(* Feather.py:141-142.                                                     *)
Offsets(canvas, scaled) ==
    <<(canvas[1] - scaled[1]) \div 2, (canvas[2] - scaled[2]) \div 2>>

(* A variant of final_img: the resized image is saved without a canvas.    *)
final_img_unpadded(canvas, scaled) == scaled

(* Feather.py:134: final_img = Image.new(original_mode, (target_width,     *)
(* target_height), ...); the size of the image that is saved.              *)
final_img(canvas, scaled) == canvas

(* Feather.py:158/167/174/177: final_img.save(file_path, ...) opens the    *)
(* file at file_path itself for writing, so from then until the last byte  *)
(* is written the file holds a part of the new image.                      *)
SaveOpens(content) == "partial"

InitImage ==
    /\ file_paths = <<>>
    /\ batch_size = 1
    /\ max_workers = 1
    /\ pc = "start"
    /\ tracker = ProgressTracker(0)
    /\ file_batches = <<>>
    /\ submitted = 0
    /\ task = <<>>
    /\ collected = {}
    /\ credit = NoCredit
    /\ final = 0
    /\ progress_total = 0
    /\ emissions = 0
    /\ finished = 0
    /\ counted = [f \in Names |-> [processed |-> 0, errors |-> 0]]
    /\ lock = 0
    /\ thread = <<>>
    /\ \E e \in Exts, ow \in Dims, oh \in Dims, tw \in Dims, th \in Dims :
         image = [pc |-> "check", ext |-> e, content |-> "original",
                  size |-> <<ow, oh>>, target |-> <<tw, th>>,
                  original |-> <<0, 0>>,
                  canvas |-> <<0, 0>>, scaled |-> <<0, 0>>,
                  offset |-> <<0, 0>>, result |-> "none",
                  call |-> 1, first |-> <<0, 0>>]

RunVars == <<file_paths, batch_size, max_workers, pc, tracker, file_batches,
             submitted, task, collected, credit, final, progress_total,
             emissions, finished, counted, lock, thread>>

(* Feather.py:83-84.                                                       *)
image_skipped ==
    /\ image.pc = "check"
    /\ image.ext \notin SupportedExts
    /\ image' = [image EXCEPT !.pc = "returned", !.result = "skipped"]
    /\ UNCHANGED RunVars

(* Feather.py:83: a supported extension, on to Image.open.                 *)
image_supported ==
    /\ image.pc = "check"
    /\ image.ext \in SupportedExts
    /\ image' = [image EXCEPT !.pc = "open"]
    /\ UNCHANGED RunVars

(* Feather.py:87-94: the image is opened and its properties are read.      *)
image_open ==
    /\ image.pc = "open"
    /\ image' = [image EXCEPT !.pc = "geometry", !.original = image.size]
    /\ UNCHANGED RunVars

(* Feather.py:95-149: canvas, scaled image, offsets, paste (in memory).    *)
image_geometry ==
    /\ image.pc = "geometry"
    /\ LET c == Canvas(image.original, image.target)
           n == Scaled(image.original, c)
       IN image' = [image EXCEPT !.pc = "save", !.canvas = c, !.scaled = n,
                                 !.offset = Offsets(c, n)]
    /\ UNCHANGED RunVars

(* Feather.py:158-177: save() opens file_path for writing.                 *)
image_save_begin ==
    /\ image.pc = "save"
    /\ image' = [image EXCEPT !.pc = "saving",
                              !.content = SaveOpens(image.content)]
    /\ UNCHANGED RunVars

(* Feather.py:158-183: save() writes the last byte; 'success'.             *)
image_save_done ==
    /\ image.pc = "saving"
    /\ image' = [image EXCEPT !.pc = "returned", !.content = "new",
                              !.size = final_img(image.canvas, image.scaled),
                              !.result = "success"]
    /\ UNCHANGED RunVars

(* Feather.py:185-187: any statement of the try block raises; the handler  *)
(* returns 'error: ...' and leaves the file as the statement left it.      *)
image_error ==
    /\ image.pc \in {"open", "geometry", "save", "saving"}
    /\ image' = [image EXCEPT !.pc = "returned", !.result = "error"]
    /\ UNCHANGED RunVars

(* Feather.py:78: process_single_image is called again on the file it has  *)
(* written, with the same target_size (a second run over the folder).      *)
image_again ==
    /\ image.pc = "returned"
    /\ image.result = "success"
    /\ image.call = 1
    /\ image' = [image EXCEPT !.pc = "check", !.call = 2,
                              !.first = image.canvas,
                              !.content = "original",
                              !.original = <<0, 0>>, !.canvas = <<0, 0>>,
                              !.scaled = <<0, 0>>, !.offset = <<0, 0>>,
                              !.result = "none"]
    /\ UNCHANGED RunVars

NextImage ==
    \/ image_skipped
    \/ image_supported
    \/ image_open
    \/ image_geometry
    \/ image_save_begin
    \/ image_save_done
    \/ image_error
    \/ image_again

SpecImage == InitImage /\ [][NextImage]_vars


(* --------------------- ProgressTracker, by statement ------------------ *)
(* Threads call the methods of one ProgressTracker concurrently.  A call   *)
(* is followed statement by statement: "with self._lock" acquires the      *)
(* lock, "self._processed += 1" reads the field and then stores the sum,   *)
(* the return value is built, and leaving the with block releases the lock.*)
MaxThreads == 3

Methods == {"increment_processed", "increment_errors", "get_progress"}

(* A variant of LockAvailable: the methods do not wait for the lock.       *)
LockIgnored(l) == TRUE

(* threading.Lock, Feather.py:29: acquire proceeds when nobody holds it.   *)
LockAvailable(l) == l = 0

InitTracker ==
    /\ file_paths = <<>>
    /\ batch_size = 1
    /\ max_workers = 1
    /\ pc = "start"
    /\ tracker = ProgressTracker(MaxThreads)
    /\ file_batches = <<>>
    /\ submitted = 0
    /\ task = <<>>
    /\ collected = {}
    /\ credit = NoCredit
    /\ final = 0
    /\ progress_total = 0
    /\ emissions = 0
    /\ finished = 0
    /\ counted = [f \in Names |-> [processed |-> 0, errors |-> 0]]
    /\ image = NoImage
    /\ lock = 0
    /\ \E m \in [1..MaxThreads -> Methods] :
         thread = [t \in 1..MaxThreads |->
                      [method |-> m[t], pc |-> "acquire", local |-> 0,
                       ret |-> <<>>]]

TrackerOtherVars ==
    <<file_paths, batch_size, max_workers, pc, file_batches, submitted, task,
      collected, credit, final, progress_total, emissions, finished, counted,
      image>>

(* Feather.py:35, 40, 45: with self._lock.                                 *)
tracker_acquire(t) ==
    /\ thread[t].pc = "acquire"
    /\ LockAvailable(lock)
    /\ lock' = t
    /\ thread' = [thread EXCEPT ![t].pc = "read"]
    /\ UNCHANGED <<tracker, TrackerOtherVars>>

(* Feather.py:36, 41: the read of "+= 1"; Feather.py:46: the read of       *)
(* self._processed for the tuple.                                          *)
tracker_read(t) ==
    /\ thread[t].pc = "read"
    /\ thread' = [thread EXCEPT
                     ![t].pc = IF thread[t].method = "get_progress"
                                  THEN "read_rest" ELSE "write",
                     ![t].local = IF thread[t].method = "increment_errors"
                                     THEN tracker.errors
                                     ELSE tracker.processed]
    /\ UNCHANGED <<tracker, lock, TrackerOtherVars>>

(* Feather.py:36-37, 41-42: the store of "+= 1" and the return value.      *)
tracker_write(t) ==
    /\ thread[t].pc = "write"
    /\ tracker' = IF thread[t].method = "increment_errors"
                     THEN [tracker EXCEPT !.errors = thread[t].local + 1]
                     ELSE [tracker EXCEPT !.processed = thread[t].local + 1]
    /\ thread' = [thread EXCEPT ![t].pc = "release",
                                ![t].ret = <<thread[t].local + 1>>]
    /\ UNCHANGED <<lock, TrackerOtherVars>>

(* Feather.py:46: self._errors and self._total are read, the tuple built.  *)
tracker_read_rest(t) ==
    /\ thread[t].pc = "read_rest"
    /\ thread' = [thread EXCEPT
                     ![t].pc = "release",
                     ![t].ret = <<thread[t].local, tracker.errors,
                                  tracker.total>>]
    /\ UNCHANGED <<tracker, lock, TrackerOtherVars>>

(* Leaving the with block releases the lock; the method returns.           *)
tracker_release(t) ==
    /\ thread[t].pc = "release"
    /\ lock' = 0
    /\ thread' = [thread EXCEPT ![t].pc = "returned"]
    /\ UNCHANGED <<tracker, TrackerOtherVars>>

NextTracker ==
    \/ \E t \in DOMAIN thread : tracker_acquire(t)
    \/ \E t \in DOMAIN thread : tracker_read(t)
    \/ \E t \in DOMAIN thread : tracker_write(t)
    \/ \E t \in DOMAIN thread : tracker_read_rest(t)
    \/ \E t \in DOMAIN thread : tracker_release(t)

SpecTracker == InitTracker /\ [][NextTracker]_vars


(* ============================ properties ============================== *)
Tally == get_progress(tracker)

NonEmpty == Len(file_paths) > 0

(* No pool exception and no batch that failed as a whole.                  *)
AllReturned ==
    /\ NonEmpty
    /\ DOMAIN task = 1..NumBatches(file_paths, batch_size)
    /\ \A b \in DOMAIN task : task[b].pc = "returned"

(* The names process_image_batch has passed to process_single_image, in    *)
(* order, and the names of the batch.                                      *)
Calls(b) == [k \in 1..Len(task[b].results) |-> task[b].results[k][1]]

BatchNames(b) == [k \in 1..Len(file_batches[b]) |-> file_batches[b][k].name]

(* Number of files of the run recorded with result r.                      *)
NumResults(r) ==
    Cardinality({<<b, k>> \in (DOMAIN task) \X (1..MaxFiles) :
                    /\ k <= Len(task[b].results)
                    /\ task[b].results[k][2] = r})

C2_TallyAtCompletion ==
    (finished > 0 /\ NonEmpty /\ submitted = Len(file_batches)) =>
        tracker.processed + tracker.errors = tracker.total

(* C3: for a non-empty file list the last value emitted on the progress    *)
(* signal before finished is exactly 100.                                  *)
C3_FinalProgressIs100 ==
    (finished > 0 /\ NonEmpty) => (emissions > 0 /\ progress_total = 100)

(* C4: the values emitted on the progress signal never decrease: every     *)
(* emission carries a value at least the previously emitted one.           *)
C4_ProgressMonotone ==
    [][emissions' > emissions => progress_total' >= progress_total]_vars

(* C5: finished is emitted exactly once, after the last progress emission  *)
(* of the run and after every worker has recorded its last outcome:        *)
(* once it is emitted no worker is queued or running, and no step emits    *)
(* progress, changes the tracker or emits finished again.                  *)
C5_FinishedOnceAndLast ==
    /\ [](/\ finished <= 1
          /\ pc = "done" => finished = 1
          /\ finished > 0 =>
                /\ pc = "done"
                /\ NonEmpty => emissions > 0
                /\ \A b \in DOMAIN task :
                      task[b].pc \in TerminalPcs \cup {"unsubmitted"})
    /\ [][finished > 0 =>
             /\ emissions' = emissions
             /\ progress_total' = progress_total
             /\ tracker' = tracker
             /\ counted' = counted
             /\ finished' = finished]_vars

(* A run in which the pool raised after a batch was submitted: the batch   *)
(* ran and emitted progress before the final update and finished.          *)
C5_Witness ==
    /\ pc = "done"
    /\ finished = 1
    /\ submitted >= 1
    /\ submitted < Len(file_batches)
    /\ emissions >= 2

(* C6: when a batch raised as a whole, at completion every file of that    *)
(* batch is counted as exactly one error, every other batch ran to its     *)
(* end, and processed + errors == total.                                   *)
C6_FailedBatchCountedOnce ==
    (pc = "done" /\ NonEmpty /\ submitted = Len(file_batches)) =>
        /\ \A b \in DOMAIN task :
              /\ task[b].pc \in TerminalPcs
              /\ task[b].pc = "raised" =>
                    \A k \in 1..Len(file_batches[b]) :
                       counted[file_batches[b][k].name] =
                           [processed |-> 0, errors |-> 1]
        /\ tracker.processed + tracker.errors = tracker.total

(* C7: a file whose transform fails increments the error counter by one    *)
(* (and nothing else of the tracker), its worker goes on to the snapshot   *)
(* of that file and no other batch nor the run thread is touched; a batch  *)
(* passes its files to process_single_image in list order, and a batch     *)
(* that returned has passed all of them, whatever their results.           *)
C7_FileFailureIsLocal ==
    /\ [][\A b \in DOMAIN task :
             (/\ task[b].pc = "transform"
              /\ task'[b].pc # "transform"
              /\ task'[b].results[Len(task'[b].results)][2] = "error") =>
                 /\ tracker' = [tracker EXCEPT !.errors = @ + 1]
                 /\ counted' = [counted EXCEPT
                                   ![CurrentFile(b).name].errors = @ + 1]
                 /\ task'[b].pc = "snapshot"
                 /\ task'[b].i = task[b].i
                 /\ \A c \in DOMAIN task : c # b => task'[c] = task[c]
                 /\ pc' = pc]_vars
    /\ [](\A b \in DOMAIN task :
             /\ Len(task[b].results) <= Len(file_batches[b])
             /\ \A k \in DOMAIN task[b].results :
                   task[b].results[k][1] = file_batches[b][k].name
             /\ task[b].pc = "returned" =>
                   Len(task[b].results) = Len(file_batches[b]))

(* A batch returned whose first file failed and whose second succeeded,    *)
(* while another batch returned too.                                       *)
C7_Witness ==
    \E b \in DOMAIN task : \E c \in DOMAIN task :
        /\ b # c
        /\ task[b].pc = "returned"
        /\ task[c].pc = "returned"
        /\ Len(task[b].results) = 2
        /\ task[b].results[1][2] = "error"
        /\ task[b].results[2][2] = "success"

(* C8 as claimed: a run over 2 successful files and 1 skipped file ends    *)
(* with the tally (2, 1, 3), the skipped file counted as an error.         *)
C8_SkippedCountedAsError ==
    (/\ pc = "done"
     /\ AllReturned
     /\ Len(file_paths) = 3
     /\ NumResults("success") = 2
     /\ NumResults("skipped") = 1) => Tally = <<2, 1, 3>>

(* C8 as amended: a file whose result is 'skipped: ...' increments the     *)
(* processed counter and not the error counter, and a run over 2           *)
(* successful files and 1 skipped file in which every batch returns ends   *)
(* with the tally (3, 0, 3).                                               *)
C8_SkippedCountedAsProcessed ==
    /\ [][\A b \in DOMAIN task :
             (/\ task[b].pc = "transform"
              /\ task'[b].pc # "transform"
              /\ task'[b].results[Len(task'[b].results)][2] = "skipped") =>
                 /\ tracker' = [tracker EXCEPT !.processed = @ + 1]
                 /\ counted' = [counted EXCEPT
                                   ![CurrentFile(b).name].processed = @ + 1]]_vars
    /\ []((/\ pc = "done"
           /\ AllReturned
           /\ Len(file_paths) = 3
           /\ NumResults("success") = 2
           /\ NumResults("skipped") = 1) => Tally = <<3, 0, 3>>)

(* The run of the scenario has completed.                                  *)
C8_Witness ==
    /\ pc = "done"
    /\ AllReturned
    /\ Len(file_paths) = 3
    /\ NumResults("success") = 2
    /\ NumResults("skipped") = 1

(* C9: a run over an empty file list ends with the tally (0, 0, 0), one    *)
(* progress emission of value 100 followed by finished, no batch and no    *)
(* worker.                                                                 *)
C9_EmptyRunEmits100 ==
    (pc = "done" /\ ~NonEmpty) =>
        /\ Tally = <<0, 0, 0>>
        /\ emissions = 1
        /\ progress_total = 100
        /\ finished = 1
        /\ file_batches = <<>>
        /\ task = <<>>

(* C10: when process_single_image does not return 'success', the file on   *)
(* disk still holds the original content.                                  *)
C10_FailureLeavesOriginal ==
    (image.pc = "returned" /\ image.result # "success") =>
        image.content = "original"


(* Threads of SpecTracker calling method m, and those among them whose     *)
(* store has been made.                                                    *)
Callers(m) == {t \in DOMAIN thread : thread[t].method = m}

Stored(m) == {t \in Callers(m) : thread[t].pc \in {"release", "returned"}}

(* C11: for any interleaving of concurrent increment_processed and         *)
(* increment_errors calls no increment is lost or applied twice (each      *)
(* counter equals the number of calls whose store is made, so N and M when *)
(* all have returned, and each call returns a distinct count), and the     *)
(* tuple a get_progress call returns is what the counters hold at the      *)
(* instant it is built and until the lock is released.                     *)
C11_TrackerAtomic ==
    /\ tracker.processed = Cardinality(Stored("increment_processed"))
    /\ tracker.errors = Cardinality(Stored("increment_errors"))
    /\ \A t \in DOMAIN thread : \A u \in DOMAIN thread :
          (/\ t # u
           /\ thread[t].method = thread[u].method
           /\ thread[t].method # "get_progress"
           /\ thread[t].ret # <<>>
           /\ thread[u].ret # <<>>) => thread[t].ret # thread[u].ret
    /\ \A t \in Callers("get_progress") :
          thread[t].pc = "release" => thread[t].ret = get_progress(tracker)

(* Two increment_processed calls and one get_progress call have returned,  *)
(* the snapshot taken between the two increments.                          *)
C11_Witness ==
    /\ \A t \in DOMAIN thread : thread[t].pc = "returned"
    /\ Cardinality(Callers("increment_processed")) = 2
    /\ \E t \in Callers("get_progress") : thread[t].ret[1] = 1
    /\ tracker.processed = 2


(* The geometry of the current call has been computed.                     *)
GeometryDone == image.pc # "none" /\ image.canvas # <<0, 0>>

Landscape(d) == d[1] > d[2]

Portrait(d) == d[1] < d[2]

Square(d) == d[1] = d[2]

(* C12: a landscape source with a portrait target uses the swapped,        *)
(* landscape canvas; a portrait source with a landscape target uses the    *)
(* swapped, portrait canvas; with source and target of the same            *)
(* orientation the canvas is the target unchanged.                         *)
C12_OrientationSwap ==
    GeometryDone =>
        LET o == image.original
            t == image.target
            swapped == <<t[2], t[1]>>
        IN /\ (Landscape(o) /\ Portrait(t)) =>
                  (image.canvas = swapped /\ Landscape(image.canvas))
           /\ (Portrait(o) /\ Landscape(t)) =>
                  (image.canvas = swapped /\ Portrait(image.canvas))
           /\ ((Landscape(o) /\ Landscape(t)) \/ (Portrait(o) /\ Portrait(t))
               \/ (Square(o) /\ Square(t))) => image.canvas = t

(* A landscape source with a portrait target, whose canvas was swapped.    *)
C12_Witness ==
    /\ GeometryDone
    /\ Landscape(image.original)
    /\ Portrait(image.target)
    /\ image.canvas = <<image.target[2], image.target[1]>>

(* C13: the scaled image fits in the canvas, the offsets are non-negative  *)
(* halves of the free space, and twice an offset plus the scaled dimension *)
(* does not exceed the canvas dimension.                                   *)
C13_Centering ==
    GeometryDone =>
        LET c == image.canvas
            n == image.scaled
            x_offset == image.offset[1]
            y_offset == image.offset[2]
        IN /\ n[1] <= c[1]
           /\ n[2] <= c[2]
           /\ x_offset = (c[1] - n[1]) \div 2
           /\ y_offset = (c[2] - n[2]) \div 2
           /\ x_offset >= 0
           /\ y_offset >= 0
           /\ x_offset * 2 + n[1] <= c[1]
           /\ y_offset * 2 + n[2] <= c[2]

(* A scaled image that leaves an odd number of free rows, so that the      *)
(* padding is one row larger on one side.                                  *)
C13_Witness ==
    /\ GeometryDone
    /\ image.scaled[1] = image.canvas[1]
    /\ image.offset[2] * 2 + image.scaled[2] < image.canvas[2]

(* C14: the file written by a successful call has the canvas dimensions,   *)
(* and a second call on that file with the same target computes the same   *)
(* canvas, a scaled size equal to the canvas and both offsets 0.           *)
C14_Idempotent ==
    /\ (image.pc = "returned" /\ image.result = "success") =>
           image.size = image.canvas
    /\ (GeometryDone /\ image.call = 2) =>
           /\ image.canvas = image.first
           /\ image.scaled = image.canvas
           /\ image.offset = <<0, 0>>

(* The second call has succeeded on a file whose first call had to swap    *)
(* the target and pad the scaled image.                                    *)
C14_Witness ==
    /\ image.pc = "returned"
    /\ image.result = "success"
    /\ image.call = 2
    /\ image.first # image.target
    /\ image.size = image.first


(* C15: under fair scheduling every started run eventually emits the       *)
(* completion signal and stops, whatever files fail, batches raise or      *)
(* pool exceptions occur.                                                  *)
C15_RunCompletes == (pc = "start") ~> (pc = "done" /\ finished = 1)

(* A run has completed in which a file failed, its batch raised and the    *)
(* pool raised before the last batch was submitted.                        *)
C15_Witness ==
    /\ pc = "done"
    /\ finished = 1
    /\ submitted < Len(file_batches)
    /\ \E b \in DOMAIN task :
          /\ task[b].pc = "raised"
          /\ \E k \in DOMAIN task[b].results : task[b].results[k][2] = "error"


(* C16: over a whole run each file of the list causes exactly one counter  *)
(* increment, either processed or errors, including the files of a batch   *)
(* that fails as a whole.                                                  *)
C16_OneIncrementPerFile ==
    (pc = "done" /\ submitted = Len(file_batches)) =>
        \A k \in DOMAIN file_paths :
            counted[file_paths[k].name].processed
                + counted[file_paths[k].name].errors = 1

(* C17: every value emitted on the progress signal, by a worker or by the  *)
(* final update, is in 0..100.                                             *)
C17_ProgressInRange == (emissions > 0) => (progress_total \in 0..100)


(* The batches of a list of batches, concatenated in order.                *)
RECURSIVE Flatten(_)
Flatten(bs) ==
    IF bs = <<>> THEN <<>> ELSE bs[1] \o Flatten(Tail(bs))

(* C18: the batches built by run are contiguous slices which, concatenated *)
(* in order, equal the file list: every file is in exactly one batch       *)
(* (file j of batch b is the file at position (b-1)*batch_size + j of the  *)
(* list), every batch but the last has batch_size files and the last has   *)
(* between 1 and batch_size files.                                         *)
C18_BatchesPartition ==
    []((pc # "start" /\ NonEmpty) =>
           /\ Flatten(file_batches) = file_paths
           /\ Len(file_batches) >= 1
           /\ \A b \in DOMAIN file_batches :
                 IF b < Len(file_batches)
                    THEN Len(file_batches[b]) = batch_size
                    ELSE Len(file_batches[b]) \in 1..batch_size
           /\ \A b \in DOMAIN file_batches :
                 \A j \in DOMAIN file_batches[b] :
                    file_batches[b][j] = file_paths[(b - 1) * batch_size + j])

(* Batches were built from a list that batch_size does not divide.         *)
C18_Witness ==
    /\ pc # "start"
    /\ Len(file_paths) = 3
    /\ batch_size = 2
    /\ Len(file_batches) = 2
    /\ Len(file_batches[2]) = 1


(* Batches whose worker is inside process_image_batch, and those among     *)
(* them whose worker is inside process_single_image.                       *)
InProgress ==
    {b \in DOMAIN task : task[b].pc \notin {"unsubmitted", "queued",
                                             "returned", "raised"}}

Transforming == {b \in DOMAIN task : task[b].pc = "transform"}

(* C19: within a batch the files are transformed one at a time in list     *)
(* order (the worker is at file i of its batch, files 1..i-1 are done and  *)
(* no later file has been touched), and at every instant at most           *)
(* max_workers batches are in progress, hence at most max_workers files    *)
(* are being transformed.                                                  *)
C19_SequentialAndBounded ==
    [](/\ Cardinality(InProgress) <= max_workers
       /\ Cardinality(Transforming) <= max_workers
       /\ \A b \in DOMAIN task :
             /\ \A k \in DOMAIN task[b].results :
                   task[b].results[k][1] = file_batches[b][k].name
             /\ task[b].pc = "transform" =>
                   /\ task[b].i >= 1
                   /\ task[b].i <= Len(file_batches[b])
                   /\ Len(task[b].results) = task[b].i - 1
             /\ (task[b].pc = "snapshot" \/ task[b].pc = "emit") =>
                   /\ task[b].i >= 1
                   /\ task[b].i <= Len(file_batches[b])
                   /\ Len(task[b].results) = task[b].i
             /\ (task[b].pc = "unsubmitted" \/ task[b].pc = "queued") =>
                   task[b].results = <<>>)

(* Every thread of a pool of two is busy while a third submitted batch     *)
(* waits in the queue.                                                     *)
C19_Witness ==
    /\ max_workers = 2
    /\ Cardinality(InProgress) = 2
    /\ \E b \in DOMAIN task : task[b].pc = "queued"


(* Files of batch b whose per-file progress value has been emitted: the    *)
(* worker at file i has emitted for files 1..i-1.                          *)
EmittedBy(b) ==
    IF task[b].pc \in {"unsubmitted", "queued"} THEN 0
    ELSE IF task[b].pc = "returned" THEN Len(file_batches[b])
    ELSE task[b].i - 1

RECURSIVE EmittedUpTo(_)
EmittedUpTo(b) == IF b = 0 THEN 0 ELSE EmittedBy(b) + EmittedUpTo(b - 1)

PerFileEmissions == EmittedUpTo(Len(task))

FinalEmissions == IF NonEmpty /\ pc \in {"emit_finished", "done"} THEN 1 ELSE 0

(* C20: progress is emitted per file: a worker has emitted one value for   *)
(* each file it has gone past and none for a later one, the value it is    *)
(* about to emit comes from a snapshot taken after the increment for its   *)
(* current file and before the next file is started, and a run of n files  *)
(* in which no batch fails (each is dispatched and returns) emits n        *)
(* per-file values plus one final value.                                   *)
C20_PerFileProgress ==
    /\ emissions = PerFileEmissions + FinalEmissions
    /\ \A b \in DOMAIN task :
          task[b].pc = "emit" =>
             /\ Len(task[b].results) = task[b].i
             /\ counted[CurrentFile(b).name].processed
                   + counted[CurrentFile(b).name].errors >= 1
             /\ task[b].progress_value >= (task[b].i * 100) \div tracker.total
             /\ task[b].progress_value <= progress_value(get_progress(tracker))
    /\ (pc = "done" /\ AllReturned) =>
          /\ PerFileEmissions = Len(file_paths)
          /\ emissions = Len(file_paths) + 1

(* A run of three files in batches of two has completed with every batch   *)
(* returned and four emissions.                                            *)
C20_Witness ==
    /\ pc = "done"
    /\ AllReturned
    /\ Len(file_paths) = 3
    /\ batch_size = 2
    /\ emissions = 4


(* C21: every file is passed to process_single_image at most once over all *)
(* workers (no two recorded calls carry the same name), the file a worker  *)
(* is transforming has not been passed before and is not being transformed *)
(* by another worker, and when a run completes in which no batch failed as *)
(* a whole (each was dispatched and returned) every file of the list has   *)
(* been passed exactly once.                                               *)
C21_EachFileTransformedOnce ==
    [](/\ \A b \in DOMAIN task : \A c \in b..Len(task) :
             \A k \in DOMAIN task[b].results :
                \A j \in DOMAIN task[c].results :
                   (b # c \/ k # j) =>
                      task[b].results[k][1] # task[c].results[j][1]
       /\ \A b \in DOMAIN task :
             task[b].pc = "transform" =>
                /\ \A c \in DOMAIN task :
                      \A j \in DOMAIN task[c].results :
                         task[c].results[j][1] # CurrentFile(b).name
                /\ \A c \in DOMAIN task :
                      (c # b /\ task[c].pc = "transform") =>
                         CurrentFile(c).name # CurrentFile(b).name
       /\ (pc = "done" /\ AllReturned) =>
             \A n \in DOMAIN file_paths :
                \E b \in DOMAIN task :
                   \E k \in DOMAIN task[b].results :
                      task[b].results[k][1] = file_paths[n].name)

(* A run of three files over two workers has completed with every batch    *)
(* returned, one file having failed and two succeeded.                     *)
C21_Witness ==
    /\ pc = "done"
    /\ AllReturned
    /\ Len(file_paths) = 3
    /\ max_workers = 2
    /\ NumResults("error") = 1
    /\ NumResults("success") = 2

====
